---- MODULE Spec2Model ----
(***************************************************************************)
(* Anaconda-Server/binstar: the `notices` subcommand                       *)
(* (binstar_client/commands/notices.py) and the legacy subcommand bridge   *)
(* (binstar_client/plugins.py).                                            *)
(*                                                                         *)
(* Two specifications share the variables: SpecNotices is one invocation   *)
(* of `anaconda notices ...` (argument parsing, NoticesAction, api_user,   *)
(* main); SpecPlugins is the import of plugins.py followed by one          *)
(* invocation of a mounted subcommand.                                     *)
(***************************************************************************)
EXTENDS Integers, Sequences, FiniteSets, TLC

VARIABLES
    pc,        \* position of the notices invocation
    ns,        \* the argparse namespace (label, user, notices, remove, get, api)
    seen,      \* argparse's seen_non_default_actions within the action group
    values,    \* the last string handed to NoticesAction (a token sequence)
    fs,        \* what the filesystem holds at the path named by `values`
    read,      \* the text NoticesAction handed to json.loads (after the file read)
    err,       \* how the invocation terminated, "" while it has not
    log,       \* records logged on the binstar.notices logger
    calls,     \* calls made on the API handle, in order
    ppc,       \* position of the plugins module / invocation
    environ,   \* os.environ restricted to the two toggles
    app,       \* commands registered on the nested `org` Typer app
    main_app,  \* commands registered by the bridge on the top-level app
    argv,      \* sys.argv of the invocation
    handler,   \* the registered command the invocation resolved to
    trace      \* what the resolved handler did, in order

nvars == <<pc, ns, seen, values, fs, read, err, log, calls>>
pvars == <<ppc, environ, app, main_app, argv, handler, trace>>
vars == <<pc, ns, seen, values, fs, read, err, log, calls,
          ppc, environ, app, main_app, argv, handler, trace>>

(***************************************************************************)
(* JSON texts and values.  A text is a sequence of lexical tokens; a value *)
(* is a tagged record, Python's None being the value of the token null.    *)
(***************************************************************************)
MaxLen == 3

Tokens == {"[", "]", "{", "}", "null", "false", "0", "1", "\"\""}

Whitespace == {" ", "\n"}

Texts == UNION {[1..n -> Tokens] : n \in 0..MaxLen}

None == [t |-> "null"]

JBool(b) == [t |-> "bool", b |-> b]

JNum(n) == [t |-> "num", n |-> n]

JStr(s) == [t |-> "str", s |-> s]

JArr(items) == [t |-> "arr", items |-> items]

JObj(members) == [t |-> "obj", members |-> members]

Fail == [ok |-> FALSE, val |-> None, pos |-> 0]

Ok(v, p) == [ok |-> TRUE, val |-> v, pos |-> p]

StringTokens == {"\"\"", "\"a\""}

StringOf(tok) == IF tok = "\"\"" THEN "" ELSE "a"

RECURSIVE SkipWs(_, _)
SkipWs(t, i) ==
    IF i <= Len(t) /\ t[i] \in Whitespace THEN SkipWs(t, i + 1) ELSE i

RECURSIVE ParseValue(_, _)
RECURSIVE ParseElems(_, _, _)
RECURSIVE ParseMembers(_, _, _)

\* one JSON value starting at token i
ParseValue(t, i) ==
    IF i > Len(t) THEN Fail
    ELSE CASE t[i] = "null" -> Ok(None, i + 1)
           [] t[i] = "false" -> Ok(JBool(FALSE), i + 1)
           [] t[i] = "true" -> Ok(JBool(TRUE), i + 1)
           [] t[i] = "0" -> Ok(JNum(0), i + 1)
           [] t[i] = "1" -> Ok(JNum(1), i + 1)
           [] t[i] \in StringTokens -> Ok(JStr(StringOf(t[i])), i + 1)
           [] t[i] = "[" ->
                LET j == SkipWs(t, i + 1)
                IN IF j <= Len(t) /\ t[j] = "]" THEN Ok(JArr(<<>>), j + 1)
                   ELSE ParseElems(t, j, <<>>)
           [] t[i] = "{" ->
                LET j == SkipWs(t, i + 1)
                IN IF j <= Len(t) /\ t[j] = "}" THEN Ok(JObj(<<>>), j + 1)
                   ELSE ParseMembers(t, j, <<>>)
           [] OTHER -> Fail

\* the elements of a non-empty array, the next one starting at token i
ParseElems(t, i, acc) ==
    LET r == ParseValue(t, i)
        j == SkipWs(t, r.pos)
    IN IF ~r.ok \/ j > Len(t) THEN Fail
       ELSE IF t[j] = "]" THEN Ok(JArr(Append(acc, r.val)), j + 1)
       ELSE IF t[j] = "," THEN ParseElems(t, SkipWs(t, j + 1), Append(acc, r.val))
       ELSE Fail

\* the members of a non-empty object, the next key at token i; a repeated
\* key keeps its last value, as a Python dict does
ParseMembers(t, i, acc) ==
    IF i > Len(t) \/ t[i] \notin StringTokens THEN Fail
    ELSE LET c == SkipWs(t, i + 1)
         IN IF c > Len(t) \/ t[c] # ":" THEN Fail
            ELSE LET r == ParseValue(t, SkipWs(t, c + 1))
                     j == SkipWs(t, r.pos)
                     key == StringOf(t[i])
                     acc2 == [k \in (DOMAIN acc) \cup {key} |->
                                 IF k = key THEN r.val ELSE acc[k]]
                 IN IF ~r.ok \/ j > Len(t) THEN Fail
                    ELSE IF t[j] = "}" THEN Ok(JObj(acc2), j + 1)
                    ELSE IF t[j] = "," THEN ParseMembers(t, SkipWs(t, j + 1), acc2)
                    ELSE Fail

\* json.loads: one value, surrounded by optional whitespace, and nothing else
JsonLoads(t) ==
    LET r == ParseValue(t, SkipWs(t, 1))
    IN IF r.ok /\ SkipWs(t, r.pos) = Len(t) + 1 THEN r ELSE Fail

\* Python truth value of a decoded JSON value
Truthy(v) ==
    CASE v.t = "null" -> FALSE
      [] v.t = "bool" -> v.b
      [] v.t = "num" -> v.n # 0
      [] v.t = "str" -> v.s # ""
      [] v.t = "arr" -> Len(v.items) > 0
      [] v.t = "obj" -> DOMAIN v.members # {}


(***************************************************************************)
(* The filesystem entry at the path named by the --create argument.        *)
(***************************************************************************)
MaxPathLen == 1

FileContents == {<<"{", "}", "\n">>, <<"[", "1", "]">>, <<"null">>, <<"{">>, <<>>}

FsEntry(kind, content) == [kind |-> kind, content |-> content]

\* no entry; or os.stat fails with an errno pathlib does not ignore
NoFileStates == {FsEntry("absent", <<>>), FsEntry("stat_error", <<>>)}

\* an entry exists: open()/read() raises OSError (a directory, no permission),
\* read() raises UnicodeDecodeError (bytes that are no text), or it is a
\* readable text file
ExistingStates ==
    {FsEntry("open_error", <<>>), FsEntry("decode_error", <<>>)}
        \cup {FsEntry("file", c) : c \in FileContents}

\* strings that name such an entry; the empty string names the current
\* directory, which open() refuses
PathNames == {t \in Texts : 1 <= Len(t) /\ Len(t) <= MaxPathLen}

EntriesAt(v) ==
    IF v = <<>> THEN {FsEntry("open_error", <<>>)}
    ELSE IF v \in PathNames THEN NoFileStates \cup ExistingStates
    ELSE NoFileStates

(***************************************************************************)
(* The notices namespace and what is recorded of an invocation.            *)
(***************************************************************************)
NoUser == "<None>"

NoApi == "<unset>"

Labels == {"main", "beta"}

Users == {"alice", ""}

Logins == {"bob"}

Namespace0 ==
    [label |-> "main", user |-> NoUser, notices |-> None,
     remove |-> FALSE, get |-> FALSE, api |-> NoApi]

LogRecord(level, msg) == [level |-> level, msg |-> msg]

Call(op, user, label, payload, ret) ==
    [op |-> op, user |-> user, label |-> label, payload |-> payload, ret |-> ret]

NoticeOps == {"create_notices", "remove_notices", "notices"}

\* the calls of the three notices operations, in order
RECURSIVE NoticeCalls(_)
NoticeCalls(cs) ==
    IF cs = <<>> THEN <<>>
    ELSE IF Head(cs).op \in NoticeOps THEN <<Head(cs)>> \o NoticeCalls(Tail(cs))
    ELSE NoticeCalls(Tail(cs))

Called(op) == \E i \in 1..Len(calls) : calls[i].op = op

Returned(op, ret) == \E i \in 1..Len(calls) : calls[i].op = op /\ calls[i].ret = ret

(***************************************************************************)
(* NoticesAction.__call__: the outcome of one call, as a record            *)
(*   ns   the namespace afterwards                                         *)
(*   read the text handed to json.loads (<<>> when none was)               *)
(*   err  "" or the exception that leaves the call                         *)
(*   log  the records logged                                               *)
(* `vals` is always a string (argparse hands one over), so the TypeError   *)
(* branch of lines 50-55 has no input that takes it.                       *)
(***************************************************************************)
\* variant: the call without the setattr of line 73
NoticesAction_NoStore(namespace, vals, entry) ==
    [ns |-> namespace, read |-> vals, err |-> "", log |-> <<>>]

NoticesAction__call__(namespace, vals, entry) ==
    IF entry.kind = "stat_error"
    THEN \* path.exists() itself raises: nothing catches it
         [ns |-> namespace, read |-> <<>>, err |-> "OSError", log |-> <<>>]
    ELSE IF entry.kind = "open_error"
    THEN [ns |-> namespace, read |-> <<>>, err |-> "SystemExit(1)",
          log |-> <<LogRecord("error", "Unable to read provided JSON file")>>]
    ELSE IF entry.kind = "decode_error"
    THEN \* not an OSError: it leaves the try of lines 58-64 uncaught
         [ns |-> namespace, read |-> <<>>, err |-> "UnicodeDecodeError", log |-> <<>>]
    ELSE LET text == IF entry.kind = "file" THEN entry.content ELSE vals
             data == JsonLoads(text)
         IN IF ~data.ok
            THEN [ns |-> namespace, read |-> text, err |-> "SystemExit(1)",
                  log |-> <<LogRecord("error", "Unable to parse provided JSON")>>]
            ELSE [ns |-> [namespace EXCEPT !.notices = data.val],
                  read |-> text, err |-> "", log |-> <<>>]

(***************************************************************************)
(* add_parser: the three options of the mutually exclusive group, as       *)
(* argparse takes them one by one from the command line.                   *)
(***************************************************************************)
\* variant: a group that is not mutually exclusive
Conflict_None(action, seenset) == FALSE

\* argparse rejects an option when another option of its group was seen
Conflict(action, seenset) == seenset \ {action} # {}

Terminate(e) == pc' = "terminated" /\ err' = e

\* --create <values>, given at most once on the command line
TakeCreate ==
    /\ pc = "parse_args"
    /\ "create" \notin seen
    /\ IF Conflict("create", seen)
       THEN /\ Terminate("SystemExit(2)")
            /\ UNCHANGED <<ns, seen, values, fs, read, log>>
       ELSE \E v \in Texts :
            \E e \in EntriesAt(v) :
              /\ LET r == NoticesAction__call__(ns, v, e)
                 IN /\ ns' = r.ns
                    /\ read' = r.read
                    /\ log' = log \o r.log
                    /\ err' = r.err
                    /\ pc' = IF r.err = "" THEN "parse_args" ELSE "terminated"
              /\ values' = v
              /\ fs' = e
              /\ seen' = seen \cup {"create"}
    /\ UNCHANGED <<calls, pvars>>

\* --remove (store_true)
TakeRemove ==
    /\ pc = "parse_args"
    /\ IF Conflict("remove", seen)
       THEN /\ Terminate("SystemExit(2)")
            /\ UNCHANGED <<ns, seen>>
       ELSE /\ ns' = [ns EXCEPT !.remove = TRUE]
            /\ seen' = seen \cup {"remove"}
            /\ UNCHANGED <<pc, err>>
    /\ UNCHANGED <<values, fs, read, log, calls, pvars>>

\* --get (store_true)
TakeGet ==
    /\ pc = "parse_args"
    /\ IF Conflict("get", seen)
       THEN /\ Terminate("SystemExit(2)")
            /\ UNCHANGED <<ns, seen>>
       ELSE /\ ns' = [ns EXCEPT !.get = TRUE]
            /\ seen' = seen \cup {"get"}
            /\ UNCHANGED <<pc, err>>
    /\ UNCHANGED <<values, fs, read, log, calls, pvars>>

\* the end of the command line: --label and --user (or their defaults) are
\* in the namespace, and args.main(args) is called
ParseDone ==
    /\ pc = "parse_args"
    /\ \E l \in Labels, u \in Users \cup {NoUser} :
          ns' = [ns EXCEPT !.label = l, !.user = u]
    /\ pc' = "inner"
    /\ UNCHANGED <<seen, values, fs, read, err, log, calls, pvars>>


(***************************************************************************)
(* api_user: the wrapper `inner` around main.                              *)
(***************************************************************************)
\* line 23: args.api = get_server_api(...)
inner_get_server_api ==
    /\ pc = "inner"
    /\ ns' = [ns EXCEPT !.api = "api"]
    /\ pc' = "check_server"
    /\ UNCHANGED <<seen, values, fs, read, err, log, calls, pvars>>

\* variant: an error of check_server() is swallowed
inner_check_server_swallow ==
    /\ pc = "check_server"
    /\ \E ok \in BOOLEAN :
          calls' = Append(calls, Call("check_server", "", "", None,
                                      IF ok THEN "ok" ELSE "raise"))
    /\ pc' = IF ns.user = NoUser THEN "user" ELSE "main"
    /\ UNCHANGED <<ns, seen, values, fs, read, err, log, pvars>>

\* lines 26-28: args.api.check_server(); an error of the collaborator
\* propagates; then the test of args.user
inner_check_server ==
    /\ pc = "check_server"
    /\ \E ok \in BOOLEAN :
          /\ calls' = Append(calls, Call("check_server", "", "", None,
                                         IF ok THEN "ok" ELSE "raise"))
          /\ IF ok
             THEN /\ pc' = IF ns.user = NoUser THEN "user" ELSE "main"
                  /\ UNCHANGED err
             ELSE Terminate("CollaboratorError")
    /\ UNCHANGED <<ns, seen, values, fs, read, log, pvars>>

\* variant: no test of the login user() returned
inner_user_unchecked ==
    /\ pc = "user"
    /\ \E login \in Logins \cup {NoUser} :
          /\ calls' = Append(calls, Call("user", "", "", None, login))
          /\ ns' = [ns EXCEPT !.user = login]
    /\ pc' = "main"
    /\ UNCHANGED <<seen, values, fs, read, err, log, pvars>>

\* lines 29-34: args.user = args.api.user().get('login'), and the
\* BinstarError when there is no login; user() itself may raise
inner_user ==
    /\ pc = "user"
    /\ \E login \in Logins \cup {NoUser, "raise"} :
          /\ calls' = Append(calls, Call("user", "", "", None, login))
          /\ IF login = "raise"
             THEN /\ Terminate("CollaboratorError")
                  /\ UNCHANGED <<ns, log>>
             ELSE /\ ns' = [ns EXCEPT !.user = login]
                  /\ IF login = NoUser
                     THEN /\ log' = Append(log,
                                 LogRecord("error", "Unable to determine owner in user"))
                          /\ Terminate("BinstarError")
                     ELSE /\ pc' = "main"
                          /\ UNCHANGED <<err, log>>
    /\ UNCHANGED <<seen, values, fs, read, pvars>>

(***************************************************************************)
(* main: the handler, lines 123-133.                                       *)
(***************************************************************************)
\* variant: `if args.notices is not None:`
Selects_IsNotNone(v) == v # None

\* `if args.notices:` is Python's truth test of the payload
Selects(v) == Truthy(v)

main ==
    /\ pc = "main"
    /\ IF Selects(ns.notices)
       THEN /\ calls' = Append(calls,
                   Call("create_notices", ns.user, ns.label, ns.notices, "ok"))
            /\ UNCHANGED log
       ELSE IF ns.remove
       THEN /\ calls' = Append(calls,
                   Call("remove_notices", ns.user, ns.label, None, "ok"))
            /\ UNCHANGED log
       ELSE IF ns.get
       THEN /\ calls' = Append(calls, Call("notices", ns.user, ns.label, None, "ok"))
            /\ log' = Append(log, LogRecord("info", "json.dumps(notices, indent=2)"))
       ELSE UNCHANGED <<calls, log>>
    /\ pc' = "done"
    /\ UNCHANGED <<ns, seen, values, fs, read, err, pvars>>

(***************************************************************************)
(* One invocation of `anaconda notices`.                                   *)
(***************************************************************************)
PluginsIdle ==
    /\ ppc = "idle"
    /\ environ = [ANACONDA_CLI_FORCE_NEW |-> "<unset>",
                  ANACONDA_CLIENT_FORCE_STANDALONE |-> "<unset>"]
    /\ app = <<>>
    /\ main_app = <<>>
    /\ argv = <<>>
    /\ handler = [func |-> "<none>", name |-> "", tagged |-> FALSE, alias |-> FALSE, hidden |-> FALSE]
    /\ trace = <<>>

InitNotices ==
    /\ pc = "parse_args"
    /\ ns = Namespace0
    /\ seen = {}
    /\ values = <<>>
    /\ fs = FsEntry("absent", <<>>)
    /\ read = <<>>
    /\ err = ""
    /\ log = <<>>
    /\ calls = <<>>
    /\ PluginsIdle

NextNotices ==
    \/ TakeCreate
    \/ TakeRemove
    \/ TakeGet
    \/ ParseDone
    \/ inner_get_server_api
    \/ inner_check_server
    \/ inner_user
    \/ main

SpecNotices == InitNotices /\ [][NextNotices]_vars


(***************************************************************************)
(* plugins.py: the subcommand tables.                                      *)
(***************************************************************************)
ALL_SUBCOMMANDS ==
    {"auth", "channel", "config", "copy", "download", "groups", "label",
     "login", "logout", "move", "notebook", "package", "remove", "search",
     "show", "update", "upload", "whoami"}

NON_HIDDEN_SUBCOMMANDS == {"upload"}

DEPRECATED_SUBCOMMANDS == {"notebook"}

SUBCOMMANDS_WITH_NEW_CLI ==
    {"auth", "channel", "config", "copy", "groups", "label", "move",
     "package", "remove", "search", "show", "update", "upload", "whoami"}

\* values of an environment variable; "<unset>" is its absence
EnvValues == {"<unset>", "", "0", "1"}

\* bool(os.getenv(name, False)): false when unset or empty, true otherwise
getenv_bool(v) == v # "<unset>" /\ v # ""

\* variant: the toggle is not read
Standalone_Never(env) == FALSE

\* line 255
Standalone(env) == getenv_bool(env.ANACONDA_CLIENT_FORCE_STANDALONE)

\* line 180
force_use_new_cli(env) == getenv_bool(env.ANACONDA_CLI_FORCE_NEW)

(***************************************************************************)
(* Registered commands.  A command tree is a function from the command's   *)
(* name to what was registered under it: the callable (func), the          *)
(* subcommand it was registered for, whether its help carries the          *)
(* "(deprecated)" tag or the alias note, and whether it is hidden.         *)
(***************************************************************************)
Command(func, name, tagged, alias, hidden) ==
    [func |-> func, name |-> name, tagged |-> tagged, alias |-> alias, hidden |-> hidden]

NoCommand == Command("<none>", "", FALSE, FALSE, FALSE)

Register(tree, cmd) ==
    [n \in (DOMAIN tree) \cup {cmd.name} |-> IF n = cmd.name THEN cmd ELSE tree[n]]

\* variant: func registered without the warning wrapper
_deprecate_unwrapped(name, func) == func

\* _deprecate(name, func): the callable new_func, which warns and calls func
_deprecate(name, func) == "new_func"

\* the module of binstar_client.commands that _load_new_subcommand mounts
mod_name(name) ==
    IF name = "label" THEN "channel"
    ELSE IF name = "auth" THEN "authorizations"
    ELSE name

\* _load_new_subcommand(app, name, help_text, hidden): the module's own
\* mount_subcommand registers its typer command under `name`
_load_new_subcommand(tree, name, tagged, alias, hidden) ==
    Register(tree, Command(mod_name(name), name, tagged, alias, hidden))

\* _mount_subcommand: the two trees after mounting `name`
_mount_subcommand(trees, env, name, is_deprecated, mount_to_main, is_hidden_on_main) ==
    LET func == IF is_deprecated THEN _deprecate(name, "_subcommand")
                ELSE "_subcommand"
    IN IF force_use_new_cli(env) /\ name \in SUBCOMMANDS_WITH_NEW_CLI
       THEN [app |-> _load_new_subcommand(trees.app, name, is_deprecated, FALSE, FALSE),
             main_app |->
                IF mount_to_main
                THEN _load_new_subcommand(trees.main_app, name, FALSE, TRUE,
                                          is_hidden_on_main)
                ELSE trees.main_app]
       ELSE [app |-> Register(trees.app,
                        Command(func, name, is_deprecated, FALSE, FALSE)),
             main_app |->
                IF ~mount_to_main THEN trees.main_app
                ELSE Register(trees.main_app,
                        Command(func, name, FALSE, TRUE, is_hidden_on_main))]

\* the names left off the top-level tree (line 267)
NOT_MOUNTED_TO_MAIN == {"login", "logout", "whoami"}

\* the loop of lines 261-269 over the names still to mount
RECURSIVE MountAll(_, _, _)
MountAll(trees, env, names) ==
    IF names = {} THEN trees
    ELSE LET name == CHOOSE n \in names : TRUE
         IN MountAll(_mount_subcommand(trees, env, name,
                                       name \in DEPRECATED_SUBCOMMANDS,
                                       name \notin NOT_MOUNTED_TO_MAIN,
                                       name \notin NON_HIDDEN_SUBCOMMANDS),
                     env, names \ {name})

\* load_legacy_subcommands(), run when the module is imported (line 272)
load_legacy_subcommands ==
    /\ ppc = "import"
    /\ IF Standalone(environ)
       THEN UNCHANGED <<app, main_app>>
       ELSE LET trees == MountAll([app |-> app, main_app |-> main_app],
                                  environ, ALL_SUBCOMMANDS)
            IN /\ app' = trees.app
               /\ main_app' = trees.main_app
    /\ ppc' = "loaded"
    /\ UNCHANGED <<environ, argv, handler, trace, nvars>>

(***************************************************************************)
(* One invocation through the command trees.                               *)
(***************************************************************************)
MaxArgs == 3

ArgWords == {"org", "notebook", "upload", "whoami", "--user"}

Argvs == {<<"anaconda">> \o a : a \in UNION {[1..n -> ArgWords] : n \in 0..MaxArgs}}

Event(ev, name, args) == [ev |-> ev, name |-> name, args |-> args]

\* the command the top-level app resolves the command line to: `org <name>`
\* on the nested app, `<name>` on the top-level tree
Resolve(av) ==
    IF Len(av) >= 3 /\ av[2] = "org" /\ av[3] \in DOMAIN app THEN app[av[3]]
    ELSE IF Len(av) >= 2 /\ av[2] \in DOMAIN main_app THEN main_app[av[2]]
    ELSE NoCommand

invoke ==
    /\ ppc = "loaded"
    /\ \E av \in Argvs :
          /\ argv' = av
          /\ handler' = Resolve(av)
          /\ ppc' = IF Resolve(av) = NoCommand THEN "no_command" ELSE "call"
    /\ UNCHANGED <<environ, app, main_app, trace, nvars>>

\* new_func of _deprecate, up to its call of func: the warning
new_func ==
    /\ ppc = "call"
    /\ handler.func = "new_func"
    /\ trace' = Append(trace, Event("warning", handler.name, <<>>))
    /\ ppc' = "func"
    /\ UNCHANGED <<environ, app, main_app, argv, handler, nvars>>

RECURSIVE Without(_, _)
Without(sq, word) ==
    IF sq = <<>> THEN <<>>
    ELSE IF Head(sq) = word THEN Without(Tail(sq), word)
    ELSE <<Head(sq)>> \o Without(Tail(sq), word)

\* _subcommand(), called as the command or by new_func
_subcommand ==
    /\ \/ ppc = "call" /\ handler.func = "_subcommand"
       \/ ppc = "func"
    /\ trace' = Append(trace,
                   Event("binstar_main", handler.name, Without(Tail(argv), "org")))
    /\ ppc' = "done"
    /\ UNCHANGED <<environ, app, main_app, argv, handler, nvars>>

\* a command mounted by a commands module: its own typer implementation
new_cli_command ==
    /\ ppc = "call"
    /\ handler.func \notin {"new_func", "_subcommand"}
    /\ trace' = Append(trace, Event("typer_command", handler.name, Tail(argv)))
    /\ ppc' = "done"
    /\ UNCHANGED <<environ, app, main_app, argv, handler, nvars>>

NoticesIdle ==
    /\ pc = "idle"
    /\ ns = Namespace0
    /\ seen = {}
    /\ values = <<>>
    /\ fs = FsEntry("absent", <<>>)
    /\ read = <<>>
    /\ err = ""
    /\ log = <<>>
    /\ calls = <<>>

InitPlugins ==
    /\ ppc = "import"
    /\ environ \in [ANACONDA_CLI_FORCE_NEW : EnvValues,
                    ANACONDA_CLIENT_FORCE_STANDALONE : EnvValues]
    /\ app = <<>>
    /\ main_app = <<>>
    /\ argv = <<>>
    /\ handler = NoCommand
    /\ trace = <<>>
    /\ NoticesIdle

NextPlugins ==
    \/ load_legacy_subcommands
    \/ invoke
    \/ new_func
    \/ _subcommand
    \/ new_cli_command

SpecPlugins == InitPlugins /\ [][NextPlugins]_vars


(***************************************************************************)
(* Properties of the notices invocation (checked under SpecNotices).       *)
(***************************************************************************)
\* exceptions that leave NoticesAction.__call__
NoticesActionErrors == {"SystemExit(1)", "OSError", "UnicodeDecodeError"}

\* the actions a namespace selects
Selected(n) ==
    {a \in {"create", "remove", "get"} :
        \/ a = "create" /\ n.notices # None
        \/ a = "remove" /\ n.remove
        \/ a = "get" /\ n.get}

\* the namespace was returned by the parser and handed to args.main
HandedToMain ==
    \/ pc \in {"inner", "check_server", "user", "main", "done"}
    \/ pc = "terminated" /\ err \in {"CollaboratorError", "BinstarError"}

\* C1: once main has run on a namespace whose payload came from --create,
\* create_notices(user, label, payload) was called exactly once, and neither
\* remove_notices nor notices was called.
C1_CreateCalledExactlyOnce ==
    (pc = "done" /\ "create" \in seen) =>
        NoticeCalls(calls) =
            <<Call("create_notices", ns.user, ns.label, ns.notices, "ok")>>

\* C2 as stated: whenever NoticesAction was given a string that is valid JSON
\* text, whatever the filesystem holds at the path of that name (nothing, or
\* an entry of any kind), the call succeeds and the namespace holds the value
\* of parsing that string.
C2_PayloadEqualsDirectParse ==
    ("create" \in seen /\ fs.kind # "stat_error" /\ JsonLoads(values).ok) =>
        /\ err \notin NoticesActionErrors
        /\ ns.notices = JsonLoads(values).val

\* C2 amended: whenever NoticesAction was given a string that is valid JSON
\* text and the existence test of the path it names answered "no", the call
\* hands that very string to json.loads, succeeds, and the namespace holds
\* the value of parsing it.
C2_PayloadEqualsDirectParseWhenNoPath ==
    ("create" \in seen /\ fs.kind = "absent" /\ JsonLoads(values).ok) =>
        /\ read = values
        /\ err \notin NoticesActionErrors
        /\ ns.notices = JsonLoads(values).val

C2_Witness ==
    /\ pc = "parse_args"
    /\ "create" \in seen
    /\ fs.kind = "absent"
    /\ JsonLoads(values).ok
    /\ Truthy(ns.notices)

\* C3 as stated: every namespace handed to main selects exactly one of
\* create, remove and get (an action counting as selected when its option was
\* given or the namespace shows it).
C3_ExactlyOneSelected == HandedToMain => Cardinality(Selected(ns) \cup seen) = 1

\* C3 amended: every namespace handed to main selects at most one of create,
\* remove and get (none is accepted too).
C3_AtMostOneSelected == HandedToMain => Cardinality(Selected(ns) \cup seen) <= 1

C3_Witness == pc = "inner" /\ Selected(ns) = {"get"} /\ seen = {"get"}

\* C4: once user() has returned no login (it is only called when --user was
\* omitted), the invocation has failed with BinstarError after logging the
\* error, and no create_notices, remove_notices or notices call was made,
\* then or later, whichever action was selected.
C4_NoLoginFailsBeforeAnyNoticesCall ==
    Returned("user", NoUser) =>
        /\ pc = "terminated"
        /\ err = "BinstarError"
        /\ log # <<>>
        /\ log[Len(log)].level = "error"
        /\ NoticeCalls(calls) = <<>>

C4_Witness ==
    /\ Returned("user", NoUser)
    /\ err = "BinstarError"
    /\ seen = {"create"}
    /\ Truthy(ns.notices)

\* C5: the wrapped handler starts (and has run) only with args.api set,
\* check_server() returned without error and args.user not None; and once
\* check_server() has raised, the error has ended the invocation: user() was
\* not called and the handler neither starts nor makes a notices call.
C5_HandlerStartsResolved ==
    /\ pc \in {"main", "done"} =>
          /\ ns.api # NoApi
          /\ Returned("check_server", "ok")
          /\ ns.user # NoUser
    /\ Returned("check_server", "raise") =>
          /\ pc = "terminated"
          /\ err = "CollaboratorError"
          /\ ~Called("user")
          /\ NoticeCalls(calls) = <<>>

C5_Witness == pc = "main" /\ Returned("user", "bob") /\ ns.user = "bob"

\* the text NoticesAction could not obtain, or obtained and could not parse
InputUnusable ==
    \/ fs.kind \in {"open_error", "decode_error"}
    \/ fs.kind = "file" /\ ~JsonLoads(fs.content).ok
    \/ fs.kind = "absent" /\ ~JsonLoads(values).ok

\* C9: whenever NoticesAction was given an input whose text cannot be
\* obtained (the path exists but cannot be opened or read) or is not valid
\* JSON, the invocation ended with exit status 1 after logging an error, the
\* namespace holds no payload, and no API call was made.
C9_UnusableInputExitsOne ==
    ("create" \in seen /\ InputUnusable) =>
        /\ pc = "terminated"
        /\ err = "SystemExit(1)"
        /\ log # <<>>
        /\ log[Len(log)].level = "error"
        /\ ns.notices = None
        /\ calls = <<>>

(***************************************************************************)
(* Properties of the bridge (checked under SpecPlugins).                   *)
(***************************************************************************)
\* C6: after load_legacy_subcommands ran with the bridge enabled, every
\* subcommand but login and logout is on the top-level tree, and every
\* subcommand is on the nested org tree, with or without the force-new flag.
C6_AllButLoginLogoutOnMain ==
    (ppc # "import" /\ ~Standalone(environ)) =>
        /\ \A n \in ALL_SUBCOMMANDS \ {"login", "logout"} : n \in DOMAIN main_app
        /\ \A n \in ALL_SUBCOMMANDS : n \in DOMAIN app

\* the process arguments after the program name, less the `org` that
\* selected the nested group
ExpectedArgs(av) ==
    IF Len(av) >= 2 /\ av[2] = "org" THEN SubSeq(av, 3, Len(av)) ELSE Tail(av)

\* C7: the legacy dispatcher is called with the process arguments after the
\* program name, in order, with only the nesting keyword removed.
C7_ForwardsAllButNestingKeyword ==
    \A i \in 1..Len(trace) :
        trace[i].ev = "binstar_main" => trace[i].args = ExpectedArgs(argv)

\* C8: an invocation that resolved to a deprecated subcommand, on either
\* tree and whatever the flags, logs nothing before its one warning, logs
\* exactly one warning naming the subcommand before the legacy dispatcher
\* is called, can always go on, and ends having called the dispatcher once.
C8_DeprecatedWarnsOnceThenDispatches ==
    handler.name \in DEPRECATED_SUBCOMMANDS =>
        /\ ppc \in {"call", "func", "done"}
        /\ ppc = "call" => trace = <<>>
        /\ ppc = "func" => trace = <<Event("warning", handler.name, <<>>)>>
        /\ ppc # "done" => ENABLED NextPlugins
        /\ ppc = "done" =>
              /\ Len(trace) = 2
              /\ trace[1] = Event("warning", handler.name, <<>>)
              /\ trace[2].ev = "binstar_main"
              /\ trace[2].name = handler.name

C8_Witness ==
    /\ ppc = "done"
    /\ handler.name = "notebook"
    /\ argv[2] = "org"
    /\ force_use_new_cli(environ)

\* C10: with ANACONDA_CLIENT_FORCE_STANDALONE set (to a non-empty value),
\* load_legacy_subcommands has mounted nothing on the org tree nor on the
\* top-level tree, whatever the force-new flag.
C10_StandaloneMountsNothing ==
    (ppc # "import" /\ getenv_bool(environ.ANACONDA_CLIENT_FORCE_STANDALONE)) =>
        /\ DOMAIN app = {}
        /\ DOMAIN main_app = {}

C10_Witness ==
    /\ ppc = "loaded"
    /\ environ.ANACONDA_CLIENT_FORCE_STANDALONE = "0"
    /\ force_use_new_cli(environ)

====
